---- MODULE Spec2Model ----
(***************************************************************************)
(* GenesisH0 (src/genesis.py): construction of the coinbase transaction    *)
(* and the 80-byte genesis block header, and the nonce search.             *)
(*                                                                         *)
(* Representation.  Byte strings are sequences over 0..255.  Hex strings   *)
(* are sequences of hex digits 0..15.  Text is a sequence of Unicode code  *)
(* points.  Python integers are unbounded; the two that exceed the range   *)
(* of TLC's integers are written as numerals:                      *)
(*   - a nonce is [hi, lo] with value hi * 65536 + lo, where               *)
(*     0 <= lo < 65536 and hi >= 0 (hi = 65536 is the value 2^32);         *)
(*   - the 256-bit target and a digest read as an integer are base-256     *)
(*     big-endian numerals without leading zeros.                          *)
(* A function that can raise returns [ok, bytes]; ok = FALSE is the raise. *)
(***************************************************************************)
EXTENDS Integers, Sequences, FiniteSets, TLC

\* ------------------------------------------------------------ bounds
\* Longest timestamp text (in characters) built for the encoding runs.
MaxTsLen == 257
\* Number of leading nonces of a run whose digests are chosen one by one;
\* every later nonce has the digests of the last entry of the oracle.
NonceWindow == 2

\* ------------------------------------------------------------ bytes
Byte == 0..255

Zeros(n) == [i \in 1..n |-> 0]

Reverse(s) == [i \in 1..Len(s) |-> s[Len(s) + 1 - i]]

\* s[:-k]
DropLast(s, k) == IF Len(s) <= k THEN << >> ELSE SubSeq(s, 1, Len(s) - k)

\* s[-k:]
LastBytes(s, k) == IF Len(s) <= k THEN s ELSE SubSeq(s, Len(s) - k + 1, Len(s))

\* Hex digits of a natural number, most significant first ("" for 0).
RECURSIVE HexDigits(_)
HexDigits(n) == IF n = 0 THEN << >> ELSE Append(HexDigits(n \div 16), n % 16)

\* '{:02x}'.format(n): lower-case hex, zero-padded to at least two digits.
format_02x(n) ==
    LET d == HexDigits(n)
    IN  IF Len(d) = 0 THEN <<0, 0>>
        ELSE IF Len(d) = 1 THEN <<0>> \o d
        ELSE d

\* bytes.hex(): two hex digits per byte.
hex(b) == [i \in 1..(2 * Len(b)) |->
             IF i % 2 = 1 THEN b[(i + 1) \div 2] \div 16 ELSE b[i \div 2] % 16]

\* bytes.fromhex(h): raises ValueError when a digit is left unpaired.
fromhex(h) ==
    IF Len(h) % 2 = 1
    THEN [ok |-> FALSE, bytes |-> << >>]
    ELSE [ok |-> TRUE,
          bytes |-> [i \in 1..(Len(h) \div 2) |-> 16 * h[2 * i - 1] + h[2 * i]]]

\* str.encode('utf-8') of one code point (no surrogates).
utf8_char(c) ==
    IF c < 128 THEN <<c>>
    ELSE IF c < 2048 THEN <<192 + (c \div 64), 128 + (c % 64)>>
    ELSE IF c < 65536
         THEN <<224 + (c \div 4096), 128 + ((c \div 64) % 64), 128 + (c % 64)>>
    ELSE <<240 + (c \div 262144), 128 + ((c \div 4096) % 64),
           128 + ((c \div 64) % 64), 128 + (c % 64)>>

\* str.encode('utf-8'): the encodings of the characters, concatenated.
RECURSIVE encode_utf8(_)
encode_utf8(s) ==
    IF Len(s) = 0 THEN << >>
    ELSE IF Len(s) = 1 THEN utf8_char(s[1])
    ELSE LET h == Len(s) \div 2
         IN  encode_utf8(SubSeq(s, 1, h)) \o encode_utf8(SubSeq(s, h + 1, Len(s)))

\* ------------------------------------------------------------ nonces
Base == 256 * 256

\* A 32-bit-or-wider natural number as [hi, lo].
ToNum(v) == [hi |-> v \div Base, lo |-> v % Base]

Succ(n) == IF n.lo = Base - 1 THEN [hi |-> n.hi + 1, lo |-> 0]
           ELSE [hi |-> n.hi, lo |-> n.lo + 1]

RECURSIVE AddSmall(_, _)
AddSmall(n, k) == IF k = 0 THEN n ELSE Succ(AddSmall(n, k - 1))

NumLess(a, b) == a.hi < b.hi \/ (a.hi = b.hi /\ a.lo < b.lo)

\* n mod m for 0 < m <= 2^23, without leaving the range of TLC's integers.
NumMod(n, m) == (((((n.hi * 256) % m) * 256) % m) + n.lo) % m

\* A pack that keeps the low 32 bits of n, as a fixed-width counter would.
pack_I_wrap(n) ==
    [ok |-> TRUE,
     bytes |-> <<n.lo % 256, n.lo \div 256, n.hi % 256, (n.hi \div 256) % 256>>]

\* struct.pack("<I", n): raises struct.error unless 0 <= n <= 4294967295.
pack_I(n) ==
    IF n.hi >= Base
    THEN [ok |-> FALSE, bytes |-> << >>]
    ELSE [ok |-> TRUE,
          bytes |-> <<n.lo % 256, n.lo \div 256, n.hi % 256, n.hi \div 256>>]

\* The number four little-endian bytes encode.
unpack_I(b) == [hi |-> b[3] + 256 * b[4], lo |-> b[1] + 256 * b[2]]

\* struct.pack("<q", v) for 0 <= v < 2^31.
pack_q(v) == pack_I(ToNum(v)).bytes \o Zeros(4)

\* UBInt32 of Construct: four bytes, big-endian.
UBInt32(n) == Reverse(pack_I(n).bytes)

MaxU32 == [hi |-> Base - 1, lo |-> Base - 1]

\* ------------------------------------------------------------ scripts
\* '04ffff001d0104'
ScriptPrefixHex == <<0, 4, 15, 15, 15, 15, 0, 0, 1, 13, 0, 1, 0, 4>>

\* The hex text create_input_script prints and then decodes (lines 64-72).
\* len(psz_timestamp) counts the characters of the text.
full_script_hex(psz_timestamp) ==
    LET psz_prefix == IF Len(psz_timestamp) > 76 THEN <<4, 12>> ELSE << >>
        length_hex == format_02x(Len(psz_timestamp))
        script_prefix == ScriptPrefixHex \o psz_prefix \o length_hex
        timestamp_hex == hex(encode_utf8(psz_timestamp))
    IN  script_prefix \o timestamp_hex

create_input_script(psz_timestamp) == fromhex(full_script_hex(psz_timestamp))

\* The 65-byte public key the output script carries (the decoded option).
PubKey == <<4>> \o [i \in 1..64 |-> 103]

\* b'\x41' + pubkey + b'\xac'
create_output_script(pubkey) == <<65>> \o pubkey \o <<172>>

\* ------------------------------------------------------------ transaction
\* Construct's Byte: one byte, a value outside 0..255 cannot be built.
ByteFieldOk(v) == v \in Byte

\* Construct's Bytes(name, n): the value built must be n bytes long.
BytesFieldOk(b, n) == Len(b) = n

\* The locktime written as a 16-bit field.
locktime_field_short == <<0, 0>>

\* The locktime field of the transaction (line 114), as UBInt32 builds it.
locktime_field == UBInt32(ToNum(0))

create_transaction(input_script, output_script, value) ==
    IF ~ByteFieldOk(Len(input_script)) \/ ~BytesFieldOk(output_script, 67)
    THEN [ok |-> FALSE, bytes |-> << >>]
    ELSE [ok |-> TRUE,
          bytes |->    pack_I(ToNum(1)).bytes          \* version
                    \o <<1>>                           \* num_inputs
                    \o Zeros(32)                       \* prev_output
                    \o UBInt32(MaxU32)                 \* prev_out_idx
                    \o <<Len(input_script)>>           \* input_script_len
                    \o input_script
                    \o UBInt32(MaxU32)                 \* sequence
                    \o <<1>>                           \* num_outputs
                    \o pack_q(value)                   \* out_value
                    \o <<67>>                          \* output_script_len
                    \o output_script
                    \o locktime_field]

\* ------------------------------------------------------------ header
create_block_header(hash_merkle_root, time_value, bits, nonce) ==
    LET n == pack_I(nonce)
    IN  IF ~n.ok \/ ~BytesFieldOk(hash_merkle_root, 32)
        THEN [ok |-> FALSE, bytes |-> << >>]
        ELSE [ok |-> TRUE,
              bytes |->    pack_I(ToNum(1)).bytes
                        \o Zeros(32)
                        \o hash_merkle_root
                        \o pack_I(ToNum(time_value)).bytes
                        \o pack_I(ToNum(bits)).bytes
                        \o n.bytes]

\* nonce += 1   (line 152)
next_nonce_skip(n) == Succ(Succ(n))

next_nonce(n) == Succ(n)

\* The slice taken one byte short: data_block[:-3] + struct.pack("<I", nonce)
set_nonce_short(data_block, nonce) ==
    LET n == pack_I(nonce)
    IN  IF n.ok THEN [ok |-> TRUE, bytes |-> DropLast(data_block, 3) \o n.bytes]
        ELSE [ok |-> FALSE, bytes |-> << >>]

\* data_block[:-4] + struct.pack("<I", nonce)   (line 154)
set_nonce(data_block, nonce) ==
    LET n == pack_I(nonce)
    IN  IF n.ok THEN [ok |-> TRUE, bytes |-> DropLast(data_block, 4) \o n.bytes]
        ELSE [ok |-> FALSE, bytes |-> << >>]

\* ------------------------------------------------------------ target
\* A byte string without its leading zero bytes: the numeral of its value.
RECURSIVE Strip(_)
Strip(b) == IF Len(b) > 0 /\ b[1] = 0 THEN Strip(Tail(b)) ELSE b

\* a < b for numerals.
RECURSIVE LexLess(_, _)
LexLess(a, b) ==
    IF Len(a) = 0 THEN FALSE
    ELSE IF a[1] # b[1] THEN a[1] < b[1]
    ELSE LexLess(Tail(a), Tail(b))

NumeralLess(a, b) == Len(a) < Len(b) \/ (Len(a) = Len(b) /\ LexLess(a, b))

\* (bits & 0xffffff) * 2 ** (8 * ((bits >> 24) - 3))   (line 142),
\* for bits whose exponent byte is at least 3.
decode_bits(bits) ==
    LET mantissa == bits % 16777216
        exponent == bits \div 16777216
        m == Strip(<<mantissa \div 65536, (mantissa \div 256) % 256, mantissa % 256>>)
    IN  IF Len(m) = 0 THEN << >> ELSE m \o Zeros(exponent - 3)

\* int(header_hash.hex(), 16) < target   (line 185)
is_genesis_hash(header_hash, target) == NumeralLess(Strip(header_hash), target)

\* ------------------------------------------------------------ state
VARIABLES
    pc,               \* the statement main() is at
    algorithm,        \* options.algorithm
    backend,          \* whether the module of the X11/X13/X15 hash can be imported
    timestamp,        \* options.timestamp
    start_nonce,      \* options.nonce
    bits,             \* options.bits after get_args
    time_value,       \* options.time
    value,            \* options.value
    merkle,           \* the double SHA-256 of the transaction (an opaque hash)
    oracle,           \* the digests of the headers of this run (opaque hashes)
    input_script,     \* main's input_script
    tx,               \* main's tx
    data_block,       \* generate_hash's data_block
    nonce,            \* generate_hash's nonce
    target,           \* generate_hash's target
    last_updated,     \* generate_hash's last_updated
    result,           \* what generate_hash returned
    out,              \* what has been written to standard output
    error,            \* why the process ended early, "none" otherwise
    exit_status,      \* the exit status of the process, -1 while it runs
    hashed,           \* history: every header hashed, with its digests
    reports           \* history: the nonces at which throughput was reported

vars == <<pc, algorithm, backend, timestamp, start_nonce, bits, time_value, value,
          merkle, oracle, input_script, tx, data_block, nonce, target,
          last_updated, result, out, error, exit_status, hashed, reports>>

options == <<algorithm, backend, timestamp, start_nonce, bits, time_value, value,
             merkle, oracle>>

\* ------------------------------------------------------------ hashing
\* n - 1 for a numeral n > 0.
RECURSIVE Dec(_)
Dec(n) ==
    IF n[Len(n)] > 0 THEN Strip([n EXCEPT ![Len(n)] = @ - 1])
    ELSE Strip(Dec(SubSeq(n, 1, Len(n) - 1)) \o <<255>>)

\* A numeral of at most 32 bytes as a 32-byte digest.
Pad32(n) == Zeros(32 - Len(n)) \o n

\* The digests a header can have in the model, for target t: the value 1, the
\* values t - 1 and t, and a value above every target that has 32 bytes or
\* fewer and a first byte below 255.
Digest(i, t) ==
    CASE i = 1 -> Zeros(31) \o <<1>>
      [] i = 2 -> Pad32(Dec(t))
      [] i = 3 -> Pad32(t)
      [] OTHER -> <<255>> \o Zeros(31)

\* The oracle entry that holds the digests of a header: headers are told
\* apart by their nonce field, the only field that changes within a run.
OracleEntry(block) ==
    LET n == unpack_I(LastBytes(block, 4))
        d == IF NumLess(n, start_nonce) \/ n.hi - start_nonce.hi > 1
             THEN NonceWindow
             ELSE (n.hi - start_nonce.hi) * Base + n.lo - start_nonce.lo
    IN  oracle[(IF d > NonceWindow THEN NonceWindow ELSE d) + 1]

\* hashlib.sha256(hashlib.sha256(data_block).digest()).digest()[::-1]
sha256d_display(block) == Digest(OracleEntry(block).sha, decode_bits(bits))

\* scrypt.hash(...)[::-1] and <module>.getPoWHash(data_block)[::-1]
pow_display(block) == Digest(OracleEntry(block).pow, decode_bits(bits))

ExternalAlgorithms == {"X11", "X13", "X15"}

\* exited: sys.exit() was called because the module could not be imported.
generate_hashes_from_block(block, algo) ==
    LET sha256_hash == sha256d_display(block)
    IN  IF algo = "scrypt"
        THEN [exited |-> FALSE, sha256_hash |-> sha256_hash,
              header_hash |-> pow_display(block)]
        ELSE IF algo = "SHA256"
        THEN [exited |-> FALSE, sha256_hash |-> sha256_hash,
              header_hash |-> sha256_hash]
        ELSE IF algo \in ExternalAlgorithms
        THEN IF backend
             THEN [exited |-> FALSE, sha256_hash |-> sha256_hash,
                   header_hash |-> pow_display(block)]
             ELSE [exited |-> TRUE, sha256_hash |-> sha256_hash,
                   header_hash |-> << >>]
        ELSE [exited |-> FALSE, sha256_hash |-> sha256_hash, header_hash |-> << >>]

\* The proof-of-work digest returned whatever the algorithm.
winning_digest_pow(algo, sha256_hash, header_hash) == header_hash

\* The digest generate_hash returns with the nonce (lines 148-150).
winning_digest(algo, sha256_hash, header_hash) ==
    IF algo \in ExternalAlgorithms THEN header_hash ELSE sha256_hash

\* ------------------------------------------------------------ throughput
ReportEvery == 1000000

\* nonce % 1000000 == 999999
IsReportNonce(n) == NumMod(n, ReportEvery) = ReportEvery - 1

\* round(a / b) for a >= 0, b > 0: to the nearest integer, a tie to the even one.
py_round_div(a, b) ==
    LET q == a \div b
        r == a % b
    IN  IF 2 * r < b THEN q
        ELSE IF 2 * r > b THEN q + 1
        ELSE IF q % 2 = 0 THEN q ELSE q + 1

\* calculate_hashrate(nonce, last_updated) when the clock reads `now`: raised is
\* a ZeroDivisionError (line 190 when no time has passed, line 191 when hashrate
\* rounds to 0).  Clock readings are whole seconds and do not run backwards.
calculate_hashrate(n, last, now) ==
    IF IsReportNonce(n)
    THEN IF now - last = 0
         THEN [raised |-> TRUE, reported |-> FALSE, last_updated |-> last]
         ELSE IF py_round_div(ReportEvery, now - last) = 0
         THEN [raised |-> TRUE, reported |-> FALSE, last_updated |-> last]
         ELSE [raised |-> FALSE, reported |-> TRUE, last_updated |-> now]
    ELSE [raised |-> FALSE, reported |-> FALSE, last_updated |-> last]

\* ------------------------------------------------------------ inputs
SupportedAlgorithms == {"SHA256", "scrypt", "X11", "X13", "X15"}

Algorithms == SupportedAlgorithms \cup {"groestl"}

\* get_args (lines 49-53): the bits used when the option is absent or 0.
default_bits(algo, given) ==
    IF given = 0
    THEN IF algo \in {"scrypt", "X11", "X13", "X15"} THEN 504365040   \* 0x1e0ffff0
         ELSE 486604799                                               \* 0x1d00ffff
    ELSE given

\* The --bits options tried: absent, and 0x207fffff (a target of 2^255 - 2^232).
BitsOptions == {0, 545259519}

\* The start nonces tried: 0, the last nonces before a throughput report,
\* and the last nonces of the 32-bit range.
StartNonces ==
    {ToNum(0)}
    \cup {ToNum(ReportEvery - 1 - k) : k \in 0..(NonceWindow - 1)}
    \cup {[hi |-> Base - 1, lo |-> Base - 1 - k] : k \in 0..(NonceWindow - 1)}

\* Seconds between two readings of the clock.
Elapsed == {0, 3, 2000000}

\* The digests of the first NonceWindow headers of a run and of all later
\* ones.  Under SHA256 the proof-of-work digest is the double SHA-256; under
\* the other algorithms the two digests of a header differ; with no backend
\* there is no proof-of-work digest to choose.
Oracles(algo, hasBackend) ==
    LET entries ==
            IF algo = "SHA256"
            THEN {[sha |-> i, pow |-> i] : i \in 1..4}
            ELSE IF algo = "scrypt" \/ (algo \in ExternalAlgorithms /\ hasBackend)
            THEN {[sha |-> (j % 4) + 1, pow |-> j] : j \in 1..4}
            ELSE {[sha |-> 1, pow |-> 1]}
    IN  [1..(NonceWindow + 1) -> entries]

\* Timestamp texts: a first character followed by n - 1 copies of a second.
Text(n, first, rest) == [i \in 1..n |-> IF i = 1 THEN first ELSE rest]

\* 'A', e with acute accent (2 bytes in UTF-8), the euro sign (3 bytes).
Chars == {65, 233, 8364}

TextLengths == (0..2) \cup (75..78) \cup (246..248) \cup (254..MaxTsLen)

Timestamps == {Text(n, c, d) : n \in TextLengths, c \in Chars, d \in {65, 233}}

NoResult == [hash |-> << >>, nonce |-> ToNum(0)]

InitLocals ==
    /\ input_script = << >>
    /\ tx = << >>
    /\ data_block = << >>
    /\ nonce = ToNum(0)
    /\ target = << >>
    /\ last_updated = 0
    /\ result = NoResult
    /\ out = << >>
    /\ error = "none"
    /\ exit_status = -1
    /\ hashed = << >>
    /\ reports = << >>

\* main() after get_args() has returned.
Init ==
    /\ pc = "get_algorithm"
    /\ algorithm \in Algorithms
    /\ backend \in IF algorithm \in ExternalAlgorithms THEN BOOLEAN ELSE {TRUE}
    /\ timestamp = <<84, 104, 101>>
    /\ start_nonce \in StartNonces
    /\ \E given \in BitsOptions : bits = default_bits(algorithm, given)
    /\ time_value = 1231006505
    /\ value = 50
    /\ merkle = Zeros(16) \o [i \in 1..16 |-> 16 * i - 1]
    /\ oracle \in Oracles(algorithm, backend)
    /\ InitLocals

\* ------------------------------------------------------------ main
Raise(kind) ==
    /\ pc' = "raised"
    /\ error' = kind
    /\ exit_status' = 1

\* sys.exit(message): the message goes to standard error, the status is 1.
SysExit(kind) ==
    /\ pc' = "exit"
    /\ error' = kind
    /\ exit_status' = 1

\* line 16: algorithm = get_algorithm(options)
GetAlgorithm ==
    /\ pc = "get_algorithm"
    /\ IF algorithm \in SupportedAlgorithms
       THEN pc' = "create_input_script" /\ UNCHANGED <<error, exit_status>>
       ELSE SysExit("unsupported_algorithm")
    /\ UNCHANGED <<options, input_script, tx, data_block, nonce, target,
                   last_updated, result, out, hashed, reports>>

\* line 18: input_script = create_input_script(options.timestamp)
CreateInputScript ==
    /\ pc = "create_input_script"
    /\ out' = Append(out, "script_hex")
    /\ LET r == create_input_script(timestamp)
       IN  IF r.ok
           THEN /\ input_script' = r.bytes
                /\ pc' = "create_transaction"
                /\ UNCHANGED <<error, exit_status>>
           ELSE /\ Raise("ValueError")
                /\ UNCHANGED input_script
    /\ UNCHANGED <<options, tx, data_block, nonce, target, last_updated, result,
                   hashed, reports>>

\* lines 19-21: output_script = ...; tx = create_transaction(...)
CreateTransaction ==
    /\ pc = "create_transaction"
    /\ LET r == create_transaction(input_script, create_output_script(PubKey), value)
       IN  IF r.ok
           THEN /\ tx' = r.bytes
                /\ pc' = "build_header"
                /\ UNCHANGED <<error, exit_status>>
           ELSE /\ Raise("FieldError")
                /\ UNCHANGED tx
    /\ UNCHANGED <<options, input_script, data_block, nonce, target, last_updated,
                   result, out, hashed, reports>>

\* lines 22-25: the merkle root, print_block_info, create_block_header
BuildHeader ==
    /\ pc = "build_header"
    /\ out' = Append(out, "block_info")
    /\ LET r == create_block_header(merkle, time_value, bits, start_nonce)
       IN  IF r.ok
           THEN /\ data_block' = r.bytes
                /\ pc' = "generate_hash"
                /\ UNCHANGED <<error, exit_status>>
           ELSE /\ Raise("struct.error")
                /\ UNCHANGED data_block
    /\ UNCHANGED <<options, input_script, tx, nonce, target, last_updated, result,
                   hashed, reports>>

\* lines 138-142: the prologue of generate_hash
StartSearch ==
    /\ pc = "generate_hash"
    /\ out' = Append(out, "searching")
    /\ nonce' = start_nonce
    /\ last_updated' = 0
    /\ target' = decode_bits(bits)
    /\ pc' = "searching"
    /\ UNCHANGED <<options, input_script, tx, data_block, result, error,
                   exit_status, hashed, reports>>

\* lines 144-154: one iteration of the loop of generate_hash.  The loop is
\* followed for the first NonceWindow + 1 nonces of a run.
SearchIteration ==
    /\ pc = "searching"
    /\ Len(hashed) <= NonceWindow
    /\ LET h == generate_hashes_from_block(data_block, algorithm)
       IN  /\ hashed' = Append(hashed, [nonce |-> nonce, block |-> data_block,
                                        sha256_hash |-> h.sha256_hash,
                                        header_hash |-> h.header_hash])
           /\ IF h.exited
              THEN /\ SysExit("missing_backend")
                   /\ UNCHANGED <<data_block, nonce, last_updated, result, out, reports>>
              ELSE \E e \in Elapsed :
                   LET c == calculate_hashrate(nonce, last_updated, last_updated + e)
                   IN  \* the clock is read only when a report is due
                       /\ (~IsReportNonce(nonce) => e = 0)
                       /\ IF c.raised
                          THEN /\ Raise("ZeroDivisionError")
                               /\ UNCHANGED <<data_block, nonce, last_updated, result,
                                              out, reports>>
                          ELSE /\ last_updated' = c.last_updated
                               /\ out' = IF c.reported THEN Append(out, "hashrate") ELSE out
                               /\ reports' = IF c.reported THEN Append(reports, nonce)
                                             ELSE reports
                               /\ IF is_genesis_hash(h.header_hash, target)
                                  THEN /\ result' = [hash |-> winning_digest(algorithm,
                                                        h.sha256_hash, h.header_hash),
                                                     nonce |-> nonce]
                                       /\ pc' = "announce"
                                       /\ UNCHANGED <<data_block, nonce, error, exit_status>>
                                  ELSE LET r == set_nonce(data_block, next_nonce(nonce))
                                       IN  /\ nonce' = next_nonce(nonce)
                                           /\ UNCHANGED result
                                           /\ IF r.ok
                                              THEN /\ data_block' = r.bytes
                                                   /\ UNCHANGED <<pc, error, exit_status>>
                                              ELSE /\ Raise("struct.error")
                                                   /\ UNCHANGED data_block
    /\ UNCHANGED <<options, input_script, tx, target>>

\* line 27: announce_found_genesis(genesis_hash, nonce), then the process ends
AnnounceFound ==
    /\ pc = "announce"
    /\ out' = Append(out, "found")
    /\ pc' = "done"
    /\ exit_status' = 0
    /\ UNCHANGED <<options, input_script, tx, data_block, nonce, target,
                   last_updated, result, error, hashed, reports>>

Next ==
    \/ GetAlgorithm
    \/ CreateInputScript
    \/ CreateTransaction
    \/ BuildHeader
    \/ StartSearch
    \/ SearchIteration
    \/ AnnounceFound

Spec == Init /\ [][Next]_vars

\* ------------------------------------------------------------ encoding runs
\* The script and transaction encoders applied to a range of timestamps.
InitEncode ==
    /\ pc = "create_input_script"
    /\ algorithm = "SHA256"
    /\ backend = TRUE
    /\ timestamp \in Timestamps
    /\ start_nonce = ToNum(0)
    /\ bits = default_bits(algorithm, 0)
    /\ time_value = 1231006505
    /\ value \in {0, 50}
    /\ merkle = Zeros(32)
    /\ oracle = [i \in 1..(NonceWindow + 1) |-> [sha |-> 1, pow |-> 1]]
    /\ InitLocals

NextEncode ==
    \/ CreateInputScript
    \/ CreateTransaction

SpecEncode == InitEncode /\ [][NextEncode]_vars

\* ------------------------------------------------------------ properties
LastHashed == hashed[Len(hashed)]

\* generate_hash has returned.
Found == pc \in {"announce", "done"}

\* The process has ended without a result.
Failed == pc \in {"raised", "exit"}

NonceField(block) == unpack_I(LastBytes(block, 4))

\* The algorithm of this run yields a proof-of-work digest for a header.
HasPowDigest ==
    algorithm \in {"SHA256", "scrypt"} \/ (algorithm \in ExternalAlgorithms /\ backend)

\* C1 as stated: once the search has returned, the digest returned is the
\* double SHA-256 digest of the winning header under SHA256 and its
\* proof-of-work digest under every other algorithm (scrypt, X11, X13, X15).
C1_FoundDigest_AsStated ==
    Found => result.hash = IF algorithm = "SHA256" THEN LastHashed.sha256_hash
                           ELSE LastHashed.header_hash

\* C1 amended: once the search has returned, the digest returned is the
\* proof-of-work digest of the winning header under X11, X13 and X15, and its
\* double SHA-256 digest under SHA256 and under scrypt.
C1_FoundDigest ==
    Found => result.hash = IF algorithm \in {"X11", "X13", "X15"}
                           THEN LastHashed.header_hash
                           ELSE LastHashed.sha256_hash

C1_Witness ==
    /\ Found
    /\ algorithm = "scrypt"
    /\ LastHashed.header_hash # LastHashed.sha256_hash
    /\ result.hash = LastHashed.sha256_hash

\* C2: a run that ends on a configuration error (unsupported algorithm,
\* missing hash backend) ends with a non-zero status, having hashed no header
\* and written nothing to standard output.
C2_ConfigErrorBeforeSearch ==
    error \in {"unsupported_algorithm", "missing_backend"} =>
        /\ exit_status > 0
        /\ hashed = << >>
        /\ out = << >>

\* C3: the nonce counter never wraps: every header hashed carries the nonce
\* counter in its nonce field, the counter leaves the 32-bit range only into
\* the fatal error state, and when the header of nonce 2^32 - 1 does not
\* satisfy the target the search has ended in that error.
C3_NonceExhaustionFatal ==
    /\ \A i \in 1..Len(hashed) :
          /\ NonceField(hashed[i].block) = hashed[i].nonce
          /\ hashed[i].nonce.hi < Base
    /\ nonce.hi >= Base =>
          pc = "raised" /\ error = "struct.error" /\ exit_status = 1
    /\ (/\ Len(hashed) > 0
        /\ LastHashed.nonce = MaxU32
        /\ HasPowDigest
        /\ ~is_genesis_hash(LastHashed.header_hash, target)) =>
          /\ pc = "raised" /\ error = "struct.error" /\ exit_status = 1
          /\ nonce = [hi |-> Base, lo |-> 0]

C3_Witness ==
    /\ pc = "raised"
    /\ error = "struct.error"
    /\ Len(hashed) >= 2
    /\ LastHashed.nonce = MaxU32

\* C4: every header hashed, and the header held during the search, is 80
\* bytes long and has the first 76 bytes of the first header hashed: version
\* 1, a zero previous hash, the merkle root, the time and the bits.
C4_HeaderFrame ==
    /\ \A i \in 1..Len(hashed) :
          /\ Len(hashed[i].block) = 80
          /\ SubSeq(hashed[i].block, 1, 76) = SubSeq(hashed[1].block, 1, 76)
          /\ SubSeq(hashed[i].block, 1, 4) = <<1, 0, 0, 0>>
          /\ SubSeq(hashed[i].block, 5, 36) = Zeros(32)
          /\ SubSeq(hashed[i].block, 37, 68) = merkle
    /\ (pc = "searching" /\ Len(hashed) > 0) =>
          /\ Len(data_block) = 80
          /\ SubSeq(data_block, 1, 76) = SubSeq(hashed[1].block, 1, 76)

C4_Witness ==
    /\ Len(hashed) >= 3
    /\ hashed[3].block # hashed[1].block
    /\ pc = "searching"

\* C5: an iteration at a nonce with nonce mod 1,000,000 = 999,999 ends as it
\* would without the report, whatever the time elapsed: without an error,
\* with the target and the first 76 header bytes unchanged, returning this
\* nonce when the digest is below the target and going on to the next nonce
\* otherwise; and a report is written in these iterations only.
C5_ReportObservational ==
    [][(pc = "searching" /\ HasPowDigest) =>
         LET h == generate_hashes_from_block(data_block, algorithm)
         IN  /\ (reports' # reports) => IsReportNonce(nonce)
             /\ IsReportNonce(nonce) =>
                  /\ reports' = Append(reports, nonce)
                  /\ error' = "none"
                  /\ target' = target
                  /\ IF is_genesis_hash(h.header_hash, target)
                     THEN pc' = "announce" /\ result'.nonce = nonce
                     ELSE /\ pc' = "searching"
                          /\ nonce' = Succ(nonce)
                          /\ DropLast(data_block', 4) = DropLast(data_block, 4)]_vars

\* Some nonce from the start nonce up to 2^32 - 1 has a proof-of-work digest
\* below the target.
Satisfiable ==
    /\ HasPowDigest
    /\ \E k \in 0..NonceWindow :
          /\ AddSmall(start_nonce, k).hi < Base
          /\ is_genesis_hash(Digest(oracle[k + 1].pow, decode_bits(bits)),
                             decode_bits(bits))

\* C6: when some nonce from the start nonce on satisfies the target, the run
\* does not end without a result, and when the digest at the start nonce
\* satisfies it the search returns in its first iteration.
C6_SearchTerminates ==
    Satisfiable =>
        /\ ~Failed
        /\ (/\ Len(hashed) >= 1
            /\ is_genesis_hash(hashed[1].header_hash, decode_bits(bits))) =>
              Found /\ Len(hashed) = 1

\* The script C7 describes for a timestamp.
ExpectedScript(text) ==
    LET payload == encode_utf8(text)
    IN     <<4, 255, 255, 0, 29, 1, 4>>
        \o (IF Len(payload) > 76 THEN <<76>> ELSE << >>)
        \o <<Len(payload) % 256>>
        \o payload

\* C7: create_input_script succeeds for every timestamp and returns the
\* prefix, the marker 4c iff the UTF-8 payload is longer than 76 bytes, one
\* length byte equal to the payload's byte count mod 256, and the payload.
C7_InputScript ==
    (pc # "create_input_script") =>
        /\ error # "ValueError"
        /\ input_script = ExpectedScript(timestamp)

\* create_transaction has been applied to input_script.
TransactionTried == pc = "build_header" \/ error = "FieldError"

\* C8 as stated: for an input script of any length, encoding the transaction
\* succeeds and yields 127 + len(input_script) bytes.
C8_TxLength_AsStated ==
    TransactionTried =>
        /\ error = "none"
        /\ Len(tx) = 127 + Len(input_script)

\* C8 amended: for an input script of at most 255 bytes, encoding the
\* transaction succeeds and yields 127 + len(input_script) bytes.
C8_TxLength ==
    (TransactionTried /\ Len(input_script) <= 255) =>
        /\ error = "none"
        /\ Len(tx) = 127 + Len(input_script)

C8_Witness ==
    /\ pc = "build_header"
    /\ Len(input_script) = 255
    /\ Len(tx) = 382

\* C9: an iteration returns iff the proof-of-work digest of the header it
\* hashed is below the target, and it returns the nonce in that header.
C9_ReturnsIffBelowTarget ==
    [][(pc = "searching" /\ HasPowDigest) =>
         LET h == generate_hashes_from_block(data_block, algorithm)
         IN  /\ (pc' = "announce") <=> NumeralLess(Strip(h.header_hash), target)
             /\ (pc' = "announce") => result'.nonce = NonceField(data_block)]_vars

\* C10: the i-th header hashed carries the nonce start + i - 1, and when the
\* search has returned, the nonce returned is that of the last header hashed,
\* whose proof-of-work digest is below the target while that of no earlier
\* header is: the least such nonce, found after nonce - start + 1 hashes.
C10_LeastNonce ==
    /\ \A i \in 1..Len(hashed) :
          /\ hashed[i].nonce = AddSmall(start_nonce, i - 1)
          /\ NonceField(hashed[i].block) = AddSmall(start_nonce, i - 1)
    /\ Found =>
          /\ result.nonce = AddSmall(start_nonce, Len(hashed) - 1)
          /\ NumeralLess(Strip(LastHashed.header_hash), target)
          /\ \A i \in 1..(Len(hashed) - 1) :
                ~NumeralLess(Strip(hashed[i].header_hash), target)

C10_Witness ==
    /\ Found
    /\ Len(hashed) = 3
    /\ result.nonce = AddSmall(start_nonce, 2)

====
